---- MODULE Spec2Model ----
(***************************************************************************)
(* Per-connection state machine of the SOCKS5 proxy in src/index.js:       *)
(* method negotiation, username/password subnegotiation, request parsing,  *)
(* the outbound connect and the relay, together with the Node.js socket    *)
(* events (data, connect, error, close) that drive it.                     *)
(*                                                                         *)
(* Bytes are naturals 0..255.  JavaScript strings are sequences of code    *)
(* points (naturals), so "1.2" is <<49, 46, 50>>.                          *)
(***************************************************************************)
EXTENDS Integers, Sequences, FiniteSets, TLC

\* --------------------------------------------------------------- bounds

\* How many bytes the destination may send back during one session.
MaxRemoteData == 1

\* The most outbound sockets one session of ClientStreams can come to own.
MaxRemotes == 2

\* ------------------------------------------------- strings and buffers

\* Code points of the characters the codec looks at.
Chr(s) ==
  CASE s = "." -> 46
    [] s = ":" -> 58
    [] s = "%" -> 37
    [] s = "0" -> 48
    [] s = "REPLACEMENT" -> 65533

\* buf.slice(from, to) with JavaScript's zero-based, end-exclusive bounds,
\* clamped to the buffer like Buffer.prototype.slice.
Slice(buf, from, to) ==
  LET hi == IF to > Len(buf) THEN Len(buf) ELSE to
  IN  IF from >= hi THEN <<>> ELSE SubSeq(buf, from + 1, hi)

\* buf.slice(n): everything from offset n on.
SliceFrom(buf, n) == Slice(buf, n, Len(buf))

IsCont(b) == b >= 128 /\ b <= 191

RECURSIVE Utf8Decode(_)
\* Buffer.prototype.toString(): UTF-8 decoding.  An ill-formed sequence is
\* replaced by U+FFFD, one replacement per maximal ill-formed subpart.
Utf8Decode(b) ==
  IF b = <<>> THEN <<>>
  ELSE
    LET c == b[1]
        n == Len(b)
        lo2 == IF c = 224 THEN 160 ELSE IF c = 240 THEN 144 ELSE 128
        hi2 == IF c = 237 THEN 159 ELSE IF c = 244 THEN 143 ELSE 191
        ok2 == n >= 2 /\ b[2] >= lo2 /\ b[2] <= hi2
        ok3 == ok2 /\ n >= 3 /\ IsCont(b[3])
        ok4 == ok3 /\ n >= 4 /\ IsCont(b[4])
        bad(k) == <<Chr("REPLACEMENT")>> \o Utf8Decode(SliceFrom(b, k))
    IN  IF c < 128 THEN <<c>> \o Utf8Decode(Tail(b))
        ELSE IF c >= 194 /\ c <= 223 THEN
          IF ok2
            THEN <<(c - 192) * 64 + (b[2] - 128)>> \o Utf8Decode(SliceFrom(b, 2))
            ELSE bad(1)
        ELSE IF c >= 224 /\ c <= 239 THEN
          IF ok3
            THEN <<(c - 224) * 4096 + (b[2] - 128) * 64 + (b[3] - 128)>>
                   \o Utf8Decode(SliceFrom(b, 3))
            ELSE IF ok2 THEN bad(2) ELSE bad(1)
        ELSE IF c >= 240 /\ c <= 244 THEN
          IF ok4
            THEN <<(c - 240) * 262144 + (b[2] - 128) * 4096
                     + (b[3] - 128) * 64 + (b[4] - 128)>>
                   \o Utf8Decode(SliceFrom(b, 4))
            ELSE IF ok3 THEN bad(3) ELSE IF ok2 THEN bad(2) ELSE bad(1)
        ELSE bad(1)

RECURSIVE Utf8Encode(_)
\* Buffer.from(string): UTF-8 encoding of a string of code points.
Utf8Encode(s) ==
  IF s = <<>> THEN <<>>
  ELSE
    LET c == s[1]
        one ==
          IF c < 128 THEN <<c>>
          ELSE IF c < 2048 THEN <<192 + (c \div 64), 128 + (c % 64)>>
          ELSE IF c < 65536 THEN
            <<224 + (c \div 4096), 128 + ((c \div 64) % 64), 128 + (c % 64)>>
          ELSE <<240 + (c \div 262144), 128 + ((c \div 4096) % 64),
                 128 + ((c \div 64) % 64), 128 + (c % 64)>>
    IN  one \o Utf8Encode(Tail(s))

\* The character of one digit, lowercase as Number.prototype.toString gives.
DigitChar(d) == IF d < 10 THEN Chr("0") + d ELSE 87 + d

RECURSIVE NumToString(_, _)
\* Number.prototype.toString(radix) of a non-negative integer.
NumToString(n, radix) ==
  IF n < radix THEN <<DigitChar(n)>>
  ELSE Append(NumToString(n \div radix, radix), DigitChar(n % radix))

\* The value of a character as a digit, or -1 when it is none.
DigitVal(c) ==
  IF c >= 48 /\ c <= 57 THEN c - 48
  ELSE IF c >= 97 /\ c <= 102 THEN c - 87
  ELSE IF c >= 65 /\ c <= 70 THEN c - 55
  ELSE -1

IsDigitOf(c, radix) == DigitVal(c) >= 0 /\ DigitVal(c) < radix

RECURSIVE JoinFrom(_, _, _)
\* The elements of parts from the i-th on, each preceded by sep.
JoinFrom(parts, i, sep) ==
  IF i > Len(parts) THEN <<>>
  ELSE sep \o parts[i] \o JoinFrom(parts, i + 1, sep)

\* Array.prototype.join(sep) over an array of strings.
Join(parts, sep) ==
  IF Len(parts) = 0 THEN <<>> ELSE parts[1] \o JoinFrom(parts, 2, sep)

\* String.prototype.split(sep) for a one-character separator: the pieces
\* between consecutive separators, one more than there are separators.
Split(s, sep) ==
  LET at == {i \in 1..Len(s) : s[i] = sep}
      n == Cardinality(at)
      \* the position of the j-th separator; 0 and Len(s) + 1 bound the string
      pos(j) == IF j = 0 THEN 0
                ELSE IF j > n THEN Len(s) + 1
                ELSE CHOOSE i \in at : Cardinality({x \in at : x < i}) = j - 1
  IN  [j \in 1..(n + 1) |-> SubSeq(s, pos(j - 1) + 1, pos(j) - 1)]

RECURSIVE DigitsFrom(_, _, _, _)
\* The number the longest run of radix-digits of s from position i on
\* denotes, after acc.
DigitsFrom(s, i, radix, acc) ==
  IF i > Len(s) \/ ~IsDigitOf(s[i], radix) THEN acc
  ELSE DigitsFrom(s, i + 1, radix, acc * radix + DigitVal(s[i]))

\* ParseIntHex without the radix: parseInt(s) reads decimal digits.
ParseIntHex_NoRadix(s) == DigitsFrom(s, 1, 10, 0)

\* parseInt(s, 16) || 0 : the leading hexadecimal digits, NaN (here 0) when
\* the string starts with none.
ParseIntHex(s) == DigitsFrom(s, 1, 16, 0)

\* Number(s) for a string of decimal digits; the empty string gives 0.
ToNumber(s) == DigitsFrom(s, 1, 10, 0)

\* ReadUInt16BE reading the low byte first.
ReadUInt16BE_LowFirst(buf) == buf[2] * 256 + buf[1]

\* buf.readUInt16BE(0) and buf.writeUInt16BE(v, 0).
ReadUInt16BE(buf) == buf[1] * 256 + buf[2]
WriteUInt16BE(v) == <<(v \div 256) % 256, v % 256>>

\* ------------------------------------------------------- address codec

\* One decimal field of a dotted quad: 0..255 without a leading zero.
IsV4Seg(g) ==
  /\ Len(g) >= 1 /\ Len(g) <= 3
  /\ \A i \in 1..Len(g) : IsDigitOf(g[i], 10)
  /\ (Len(g) > 1 => g[1] # Chr("0"))
  /\ ToNumber(g) <= 255

IsIPv4(s) ==
  LET parts == Split(s, Chr("."))
  IN  Len(parts) = 4 /\ \A i \in 1..4 : IsV4Seg(parts[i])

\* One field of an IPv6 literal: one to four hexadecimal digits.
IsV6Seg(g) ==
  Len(g) >= 1 /\ Len(g) <= 4 /\ \A i \in 1..Len(g) : IsDigitOf(g[i], 16)

\* The fields of one side of an IPv6 literal; the empty side has none.
V6Fields(s) == IF s = <<>> THEN <<>> ELSE Split(s, Chr(":"))

\* How many 16-bit fields a list stands for when it is well formed (an
\* embedded dotted quad, allowed last when mayV4, stands for two), else -1.
V6Count(fields, mayV4) ==
  LET n == Len(fields)
  IN  IF n = 0 THEN 0
      ELSE IF \A i \in 1..n : IsV6Seg(fields[i]) THEN n
      ELSE IF /\ mayV4
              /\ \A i \in 1..(n - 1) : IsV6Seg(fields[i])
              /\ IsIPv4(fields[n]) THEN n + 1
      ELSE -1

IsIPv6(s) ==
  LET pct == {i \in 1..Len(s) : s[i] = Chr("%")}
      cut == IF pct = {} THEN Len(s) + 1
             ELSE CHOOSE i \in pct : \A j \in pct : i <= j
      body == SubSeq(s, 1, cut - 1)
      zoneOk == pct = {} \/ cut < Len(s)
      gaps == {i \in 1..(Len(body) - 1) :
                 body[i] = Chr(":") /\ body[i + 1] = Chr(":")}
  IN  /\ zoneOk
      /\ IF gaps = {} THEN V6Count(V6Fields(body), TRUE) = 8
         ELSE /\ Cardinality(gaps) = 1
              /\ LET g == CHOOSE i \in gaps : TRUE
                     l == V6Count(V6Fields(SubSeq(body, 1, g - 1)), FALSE)
                     r == V6Count(V6Fields(SubSeq(body, g + 2, Len(body))), TRUE)
                 IN  l >= 0 /\ r >= 0 /\ l + r <= 7

\* net.isIP: 4, 6, or 0 for a string that is no IP literal.
IsIP(s) == IF IsIPv4(s) THEN 4 ELSE IF IsIPv6(s) THEN 6 ELSE 0

\* addrBytes.join('.'): the dotted-decimal text of a byte buffer.
JoinDots(bytes) ==
  Join([i \in 1..Len(bytes) |-> NumToString(bytes[i], 10)], <<Chr(".")>>)

\* ipv6BufToString: eight 16-bit fields in hexadecimal, joined by colons.
ipv6BufToString(buf) ==
  Join([i \in 1..8 |-> NumToString(buf[2 * i - 1] * 256 + buf[2 * i], 16)],
       <<Chr(":")>>)

\* DefaultBound with an empty address, which is no IP literal.
DefaultBound_EmptyAddr == [addr |-> <<>>, port |-> 0]

\* The bound address sendSocks5Reply falls back to.
DefaultBound == [addr |-> JoinDots(<<0, 0, 0, 0>>), port |-> 0]

\* sendSocks5Reply: the bytes of the reply frame it writes.  opt is <<>>
\* when the caller passes no bound address, else <<[addr, port]>>.
sendSocks5Reply(rep, opt) ==
  LET bound == IF opt = <<>> THEN DefaultBound ELSE opt[1]
      addr == bound.addr
      port == bound.port
      ipType == IsIP(addr)
      portBuf == WriteUInt16BE(port)
  IN  IF ipType = 4 THEN
        LET nums == Split(addr, Chr("."))
            addrBuf == [i \in 1..Len(nums) |-> ToNumber(nums[i]) % 256]
        IN  <<5, rep, 0, 1>> \o addrBuf \o portBuf
      ELSE IF ipType = 6 THEN
        LET parts == Split(addr, Chr(":"))
            addrParts == [i \in 1..Len(parts) |-> ParseIntHex(parts[i])]
            field(i) == IF i <= Len(addrParts) THEN addrParts[i] ELSE 0
            addrBuf == [i \in 1..16 |-> WriteUInt16BE(field((i + 1) \div 2))[2 - (i % 2)]]
        IN  <<5, rep, 0, 4>> \o addrBuf \o portBuf
      ELSE
        LET domainBuf == Utf8Encode(addr)
        IN  <<5, rep, 0, 3>> \o <<Len(domainBuf) % 256>> \o domainBuf \o portBuf

\* ------------------------------------------------------------- session

VARIABLES
  config,        \* the loaded configuration: [user, pass], two strings
  frames,        \* what this client sends: [greeting, auth, request, trail]
  sent,          \* how many bytes of the client's stream have arrived
  state,         \* 'greeting', 'auth', 'request' or 'relay'
  buffer,        \* the accumulation buffer
  clientOut,     \* every byte written to the client socket, in order
  clientDestroyed, \* client.destroyed
  clientClosed,  \* the client's 'close' event has been emitted
  remotes,       \* the outbound sockets, in the order they were created
  consumed,      \* how many bytes consume() has taken off the buffer
  remoteSent,    \* how many bytes the destinations have sent back
  hungUp,        \* the client itself ended or broke its connection
  split          \* some chunk so far ended inside a frame

vars == <<config, frames, sent, state, buffer, clientOut, clientDestroyed,
          clientClosed, remotes, consumed, remoteSent, hungUp, split>>

\* The whole byte stream of the client.
Stream(f) == f.greeting \o f.auth \o f.request \o f.trail

\* Stream offsets at which the greeting, auth and request frames end.
GEnd == Len(frames.greeting)
AEnd == GEnd + Len(frames.auth)
REnd == AEnd + Len(frames.request)

\* The part of the session processBuffer reads and writes.
Session ==
  [state |-> state, buffer |-> buffer, clientOut |-> clientOut,
   clientDestroyed |-> clientDestroyed, remotes |-> remotes,
   consumed |-> consumed]

\* consume(n): drop the first n bytes of the buffer.
consume(s, n) ==
  [s EXCEPT !.buffer = SliceFrom(@, n), !.consumed = @ + n]

\* socket.write on the client: nothing leaves a destroyed socket.
clientWrite(s, bytes) ==
  IF s.clientDestroyed THEN s ELSE [s EXCEPT !.clientOut = @ \o bytes]

\* client.destroy(): idempotent; the 'close' event follows later.
clientDestroy(s) == [s EXCEPT !.clientDestroyed = TRUE]

\* handleConnect up to the handlers it registers: a new outbound socket.
\* localAddress and localPort are unset until the socket connects.
\* Three fields only record history: at is the stream offset at which the
\* request frame ended; orphan and attempts are set when the socket fails,
\* to whether the client was destroyed by then and to how many outbound
\* sockets the session had made.
handleConnect(s, destHost, destPort) ==
  [s EXCEPT !.remotes = Append(@,
     [host |-> destHost, port |-> destPort, status |-> "connecting",
      destroyed |-> FALSE, closed |-> FALSE, piped |-> FALSE,
      localAddress |-> <<>>, localPort |-> 0,
      in |-> <<>>, at |-> s.consumed, orphan |-> FALSE, attempts |-> 0])]

\* Greeting looking at the first offered method only.
Greeting_FirstMethodOnly(s) ==
  LET b == s.buffer
  IN  IF Len(b) < 2 THEN [s |-> s, again |-> FALSE]
      ELSE IF b[1] # 5 THEN [s |-> clientDestroy(s), again |-> FALSE]
      ELSE IF Len(b) < 2 + b[2] THEN [s |-> s, again |-> FALSE]
      ELSE
        LET methods == Slice(b, 2, 2 + b[2])
            t == consume(s, 2 + b[2])
        IN  IF Len(methods) > 0 /\ methods[1] = 2
              THEN [s |-> [clientWrite(t, <<5, 2>>) EXCEPT !.state = "auth"],
                    again |-> TRUE]
              ELSE [s |-> clientDestroy(clientWrite(t, <<5, 255>>)),
                    again |-> FALSE]

\* The greeting branch of processBuffer; again says whether the loop goes on.
Greeting(s) ==
  LET b == s.buffer
  IN  IF Len(b) < 2 THEN [s |-> s, again |-> FALSE]
      ELSE IF b[1] # 5 THEN [s |-> clientDestroy(s), again |-> FALSE]
      ELSE IF Len(b) < 2 + b[2] THEN [s |-> s, again |-> FALSE]
      ELSE
        LET methods == Slice(b, 2, 2 + b[2])
            t == consume(s, 2 + b[2])
        IN  IF \E i \in 1..Len(methods) : methods[i] = 2
              THEN [s |-> [clientWrite(t, <<5, 2>>) EXCEPT !.state = "auth"],
                    again |-> TRUE]
              ELSE [s |-> clientDestroy(clientWrite(t, <<5, 255>>)),
                    again |-> FALSE]

\* Auth sending a client whose credentials were refused back to the
\* greeting instead of destroying its socket.
Auth_RetryFromGreeting(s, cfg) ==
  LET b == s.buffer
  IN  IF Len(b) < 2 THEN [s |-> s, again |-> FALSE]
      ELSE IF b[1] # 1 THEN [s |-> clientDestroy(s), again |-> FALSE]
      ELSE
        LET ulen == b[2]
        IN  IF Len(b) < 2 + ulen + 1 THEN [s |-> s, again |-> FALSE]
            ELSE
              LET uname == Utf8Decode(Slice(b, 2, 2 + ulen))
                  plen == b[2 + ulen + 1]
              IN  IF Len(b) < 2 + ulen + 1 + plen
                    THEN [s |-> s, again |-> FALSE]
                  ELSE
                    LET passwd == Utf8Decode(
                          Slice(b, 2 + ulen + 1, 2 + ulen + 1 + plen))
                        t == consume(s, 2 + ulen + 1 + plen)
                    IN  IF uname = cfg.user /\ passwd = cfg.pass
                          THEN [s |-> [clientWrite(t, <<1, 0>>)
                                         EXCEPT !.state = "request"],
                                again |-> TRUE]
                          ELSE [s |-> [clientWrite(t, <<1, 1>>)
                                         EXCEPT !.state = "greeting"],
                                again |-> FALSE]

\* The auth branch of processBuffer.
Auth(s, cfg) ==
  LET b == s.buffer
  IN  IF Len(b) < 2 THEN [s |-> s, again |-> FALSE]
      ELSE IF b[1] # 1 THEN [s |-> clientDestroy(s), again |-> FALSE]
      ELSE
        LET ulen == b[2]
        IN  IF Len(b) < 2 + ulen + 1 THEN [s |-> s, again |-> FALSE]
            ELSE
              LET uname == Utf8Decode(Slice(b, 2, 2 + ulen))
                  plen == b[2 + ulen + 1]
              IN  IF Len(b) < 2 + ulen + 1 + plen
                    THEN [s |-> s, again |-> FALSE]
                  ELSE
                    LET passwd == Utf8Decode(
                          Slice(b, 2 + ulen + 1, 2 + ulen + 1 + plen))
                        t == consume(s, 2 + ulen + 1 + plen)
                    IN  IF uname = cfg.user /\ passwd = cfg.pass
                          THEN [s |-> [clientWrite(t, <<1, 0>>)
                                         EXCEPT !.state = "request"],
                                again |-> TRUE]
                          ELSE [s |-> clientDestroy(clientWrite(t, <<1, 1>>)),
                                again |-> FALSE]

\* Request answering a wrong version byte with a general-failure reply.
Request_ReplyOnBadVersion(s) ==
  LET b == s.buffer
  IN  IF Len(b) < 4 THEN s
      ELSE
        LET ver == b[1]
            cmd == b[2]
            atyp == b[4]
        IN  IF ver # 5 THEN
              clientDestroy(clientWrite(s, sendSocks5Reply(1, <<>>)))
            ELSE IF cmd # 1 THEN
              clientDestroy(clientWrite(s, sendSocks5Reply(7, <<>>)))
            ELSE IF atyp = 1 THEN
              IF Len(b) < 4 + 4 + 2 THEN s
              ELSE handleConnect(consume(s, 10),
                     JoinDots(Slice(b, 4, 8)), ReadUInt16BE(Slice(b, 8, 10)))
            ELSE IF atyp = 3 THEN
              IF Len(b) < 5 THEN s
              ELSE
                LET domainLen == b[5]
                IN  IF Len(b) < 4 + 1 + domainLen + 2 THEN s
                    ELSE handleConnect(consume(s, 4 + 1 + domainLen + 2),
                           Utf8Decode(Slice(b, 5, 5 + domainLen)),
                           ReadUInt16BE(Slice(b, 5 + domainLen, 7 + domainLen)))
            ELSE IF atyp = 4 THEN
              IF Len(b) < 4 + 16 + 2 THEN s
              ELSE handleConnect(consume(s, 22),
                     ipv6BufToString(Slice(b, 4, 20)),
                     ReadUInt16BE(Slice(b, 20, 22)))
            ELSE clientDestroy(clientWrite(s, sendSocks5Reply(8, <<>>)))

\* The request branch of processBuffer; it never continues the loop.
Request(s) ==
  LET b == s.buffer
  IN  IF Len(b) < 4 THEN s
      ELSE
        LET ver == b[1]
            cmd == b[2]
            atyp == b[4]
        IN  IF ver # 5 THEN clientDestroy(s)
            ELSE IF cmd # 1 THEN
              clientDestroy(clientWrite(s, sendSocks5Reply(7, <<>>)))
            ELSE IF atyp = 1 THEN
              IF Len(b) < 4 + 4 + 2 THEN s
              ELSE handleConnect(consume(s, 10),
                     JoinDots(Slice(b, 4, 8)), ReadUInt16BE(Slice(b, 8, 10)))
            ELSE IF atyp = 3 THEN
              IF Len(b) < 5 THEN s
              ELSE
                LET domainLen == b[5]
                IN  IF Len(b) < 4 + 1 + domainLen + 2 THEN s
                    ELSE handleConnect(consume(s, 4 + 1 + domainLen + 2),
                           Utf8Decode(Slice(b, 5, 5 + domainLen)),
                           ReadUInt16BE(Slice(b, 5 + domainLen, 7 + domainLen)))
            ELSE IF atyp = 4 THEN
              IF Len(b) < 4 + 16 + 2 THEN s
              ELSE handleConnect(consume(s, 22),
                     ipv6BufToString(Slice(b, 4, 20)),
                     ReadUInt16BE(Slice(b, 20, 22)))
            ELSE clientDestroy(clientWrite(s, sendSocks5Reply(8, <<>>)))

RECURSIVE processBuffer(_, _)
\* processBuffer: evaluate the buffer against the current state's grammar
\* until a frame is incomplete, the socket is destroyed or a connect starts.
processBuffer(s, cfg) ==
  IF s.state = "greeting" THEN
    LET r == Greeting(s) IN IF r.again THEN processBuffer(r.s, cfg) ELSE r.s
  ELSE IF s.state = "auth" THEN
    LET r == Auth(s, cfg) IN IF r.again THEN processBuffer(r.s, cfg) ELSE r.s
  ELSE IF s.state = "request" THEN Request(s)
  ELSE s

\* onData keeping only the newest chunk instead of accumulating.
onData_NoAccumulate(s, cfg, chunk) ==
  processBuffer([s EXCEPT !.buffer = chunk], cfg)

\* client.on('data'): append the chunk and evaluate the buffer.
onData(s, cfg, chunk) ==
  processBuffer([s EXCEPT !.buffer = @ \o chunk], cfg)

\* -------------------------------------------------------- environment

\* Configurations: user 'u' with password 'p', and user 'u' with the
\* password U+FFFD (what an environment variable holding a byte that is
\* not UTF-8 is loaded as).
Configs ==
  { [user |-> <<117>>, pass |-> <<112>>],
    [user |-> <<117>>, pass |-> <<Chr("REPLACEMENT")>>] }

\* An RFC 1929 frame carrying the given username and password bytes.
AuthFrame(ver, u, p) == <<ver, Len(u)>> \o u \o <<Len(p)>> \o p

Greetings ==
  { <<5, 1, 2>>, <<5, 2, 0, 2>>, <<5, 1, 0>>, <<5, 0>>, <<4, 1, 2>> }

Auths ==
  { AuthFrame(1, u, p) :
      u \in {<<117>>, <<118>>},
      p \in {<<112>>, <<113>>, <<255>>, <<239, 191, 189>>, <<>>} }
  \cup { AuthFrame(2, <<117>>, <<112>>) }

Requests ==
  { <<5, 1, 0, 1, 93, 184, 216, 34, 0, 80>>,
    <<5, 1, 0, 3, 3, 97, 46, 98, 31, 144>>,
    <<5, 1, 0, 4, 32, 1, 13, 184, 0, 0, 0, 0, 0, 0, 0, 0, 0, 0, 0, 1, 1, 187>>,
    <<5, 2, 0, 1, 0, 0, 0, 0, 0, 0>>,
    <<5, 3, 0, 9>>,
    <<5, 1, 0, 5>>,
    <<4, 1, 0, 1, 93, 184, 216, 34, 0, 80>> }

\* What the client sends after its request frame: nothing, application
\* data of several lengths, and application data that happens to read as a
\* SOCKS request.
Trails ==
  { <<>>, <<22>>, <<22, 3, 1, 0>>, <<5, 1, 0, 1, 10, 0, 0, 1, 0, 80>>,
    <<5, 2, 0, 1>> }

\* The streams a client sends.  Bytes after the request frame are tried
\* behind the plain greeting and behind every request but the domain and
\* IPv6 CONNECT, whose sessions differ from the IPv4 one only in the
\* length of the frame.
ClientStreams ==
  { f \in [greeting : Greetings, auth : Auths,
           request : Requests, trail : Trails] :
      f.trail # <<>> =>
        /\ f.greeting = <<5, 1, 2>>
        /\ ~(f.request[2] = 1 /\ f.request[4] \in {3, 4}) }

\* remote.localAddress / remote.localPort of a connected outbound socket:
\* 127.0.0.1, ::1 and the IPv4-mapped ::ffff:127.0.0.1.
LocalAddrs ==
  { JoinDots(<<127, 0, 0, 1>>),
    <<58, 58, 49>>,
    <<58, 58, 102, 102, 102, 102, 58>> \o JoinDots(<<127, 0, 0, 1>>) }
LocalPorts == { 40000 }

\* The reply frames the socket handlers write, each encoded once:
\* sendSocks5Reply(client, 0x01) and
\* sendSocks5Reply(client, 0x00, { addr: localAddr, port: localPort }).
FailureReply == sendSocks5Reply(1, <<>>)
SuccessReply ==
  [a \in LocalAddrs, p \in LocalPorts |->
     sendSocks5Reply(0, <<[addr |-> a, port |-> p]>>)]

\* Bytes a destination sends back.
DestBytes == { 200 }

Init ==
  /\ config \in Configs
  /\ frames \in ClientStreams
  /\ sent = 0
  /\ state = "greeting"
  /\ buffer = <<>>
  /\ clientOut = <<>>
  /\ clientDestroyed = FALSE
  /\ clientClosed = FALSE
  /\ remotes = <<>>
  /\ consumed = 0
  /\ remoteSent = 0
  /\ hungUp = FALSE
  /\ split = FALSE

\* ------------------------------------------------------------- actions

\* What a chunk does to the outbound sockets client.pipe feeds.
pipeToRemotes(rs, chunk) ==
  [i \in 1..Len(rs) |->
     IF rs[i].piped /\ ~rs[i].destroyed
       THEN [rs[i] EXCEPT !.in = @ \o chunk] ELSE rs[i]]

\* A chunk of k bytes arrives from the client: the 'data' listener of the
\* session runs, then the listeners client.pipe added.
ClientData(k) ==
  /\ ~clientDestroyed
  /\ sent + k <= Len(Stream(frames))
  /\ LET chunk == SubSeq(Stream(frames), sent + 1, sent + k)
         s == onData(Session, config, chunk)
     IN  /\ state' = s.state
         /\ buffer' = s.buffer
         /\ clientOut' = s.clientOut
         /\ clientDestroyed' = s.clientDestroyed
         /\ consumed' = s.consumed
         /\ remotes' = pipeToRemotes(s.remotes, chunk)
  /\ sent' = sent + k
  /\ split' = (split \/ sent' \notin {GEnd, AEnd, REnd, Len(Stream(frames))})
  /\ UNCHANGED <<config, frames, clientClosed, remoteSent, hungUp>>

\* The client hangs up or its socket fails: Node destroys the socket.
ClientHangup ==
  /\ ~clientDestroyed
  /\ clientDestroyed' = TRUE
  /\ hungUp' = TRUE
  /\ UNCHANGED <<config, frames, sent, state, buffer, clientOut, clientClosed,
                 remotes, consumed, remoteSent, split>>

\* ClientCloseEvent destroying only the newest outbound socket.
ClientCloseEvent_NewestOnly ==
  /\ clientDestroyed /\ ~clientClosed
  /\ clientClosed' = TRUE
  /\ remotes' = [i \in 1..Len(remotes) |->
        IF i = Len(remotes) THEN [remotes[i] EXCEPT !.destroyed = TRUE]
        ELSE remotes[i]]
  /\ UNCHANGED <<config, frames, sent, state, buffer, clientOut,
                 clientDestroyed, consumed, remoteSent, hungUp, split>>

\* client 'close': every handleConnect registered a listener that destroys
\* its outbound socket.
ClientCloseEvent ==
  /\ clientDestroyed /\ ~clientClosed
  /\ clientClosed' = TRUE
  /\ remotes' = [i \in 1..Len(remotes) |-> [remotes[i] EXCEPT !.destroyed = TRUE]]
  /\ UNCHANGED <<config, frames, sent, state, buffer, clientOut,
                 clientDestroyed, consumed, remoteSent, hungUp, split>>

\* RemoteConnect without the assignment state = 'relay'.
RemoteConnect_StateStays(r, localAddr, localPort) ==
  /\ r \in 1..Len(remotes)
  /\ remotes[r].status = "connecting" /\ ~remotes[r].destroyed
  /\ remotes' = [remotes EXCEPT ![r] =
        [@ EXCEPT !.status = "connected", !.piped = TRUE,
                  !.localAddress = localAddr, !.localPort = localPort,
                  !.in = IF Len(buffer) > 0 THEN @ \o buffer ELSE @]]
  /\ clientOut' = clientWrite(Session, SuccessReply[localAddr, localPort]).clientOut
  /\ buffer' = <<>>
  /\ UNCHANGED <<config, frames, sent, state, clientDestroyed, clientClosed,
                 consumed, remoteSent, hungUp, split>>

\* remote.once('connect'): reply, flush the buffer, start both pipes.
RemoteConnect(r, localAddr, localPort) ==
  /\ r \in 1..Len(remotes)
  /\ remotes[r].status = "connecting" /\ ~remotes[r].destroyed
  /\ remotes' = [remotes EXCEPT ![r] =
        [@ EXCEPT !.status = "connected", !.piped = TRUE,
                  !.localAddress = localAddr, !.localPort = localPort,
                  !.in = IF Len(buffer) > 0 THEN @ \o buffer ELSE @]]
  /\ clientOut' = clientWrite(Session, SuccessReply[localAddr, localPort]).clientOut
  /\ buffer' = <<>>
  /\ state' = "relay"
  /\ UNCHANGED <<config, frames, sent, clientDestroyed, clientClosed,
                 consumed, remoteSent, hungUp, split>>

\* remote.on('error'): the outbound socket failed (while connecting or once
\* connected); Node has destroyed it when the listener runs.
RemoteError(r) ==
  /\ r \in 1..Len(remotes)
  /\ ~remotes[r].destroyed
  /\ remotes' = [remotes EXCEPT ![r] =
        [@ EXCEPT !.destroyed = TRUE,
                  !.status = IF @ = "connecting" THEN "failed" ELSE "reset",
                  !.orphan = clientDestroyed,
                  !.attempts = Len(remotes)]]
  /\ clientOut' = clientWrite(Session, FailureReply).clientOut
  /\ clientDestroyed' = TRUE
  /\ UNCHANGED <<config, frames, sent, state, buffer, clientClosed,
                 consumed, remoteSent, hungUp, split>>

\* The destination ends the connection: Node destroys the outbound socket.
RemoteEnd(r) ==
  /\ r \in 1..Len(remotes)
  /\ remotes[r].status = "connected" /\ ~remotes[r].destroyed
  /\ remotes' = [remotes EXCEPT ![r] = [@ EXCEPT !.destroyed = TRUE]]
  /\ UNCHANGED <<config, frames, sent, state, buffer, clientOut,
                 clientDestroyed, clientClosed, consumed, remoteSent,
                 hungUp, split>>

\* remote 'close': destroy the client.
RemoteCloseEvent(r) ==
  /\ r \in 1..Len(remotes)
  /\ remotes[r].destroyed /\ ~remotes[r].closed
  /\ remotes' = [remotes EXCEPT ![r] = [@ EXCEPT !.closed = TRUE]]
  /\ clientDestroyed' = TRUE
  /\ UNCHANGED <<config, frames, sent, state, buffer, clientOut,
                 clientClosed, consumed, remoteSent, hungUp, split>>

\* remote.pipe(client): a byte from the destination is written to the client.
RemoteData(r, b) ==
  /\ r \in 1..Len(remotes)
  /\ remotes[r].piped /\ ~remotes[r].destroyed
  /\ remoteSent < MaxRemoteData
  /\ remoteSent' = remoteSent + 1
  /\ clientOut' = clientWrite(Session, <<b>>).clientOut
  /\ UNCHANGED <<config, frames, sent, state, buffer, clientDestroyed,
                 clientClosed, remotes, consumed, hungUp, split>>

Next ==
  \/ \E k \in 1..Len(Stream(frames)) : ClientData(k)
  \/ ClientHangup
  \/ ClientCloseEvent
  \/ \E r \in 1..Len(remotes), a \in LocalAddrs, p \in LocalPorts : RemoteConnect(r, a, p)
  \/ \E r \in 1..Len(remotes) : RemoteError(r)
  \/ \E r \in 1..Len(remotes) : RemoteEnd(r)
  \/ \E r \in 1..Len(remotes) : RemoteCloseEvent(r)
  \/ \E r \in 1..Len(remotes), b \in DestBytes : RemoteData(r, b)

Spec == Init /\ [][Next]_vars

\* The sessions of one configuration behind the plain greeting, for the
\* properties of what eventually happens.
LiveInit ==
  /\ Init
  /\ config = [user |-> <<117>>, pass |-> <<112>>]
  /\ frames.greeting = <<5, 1, 2>>
  /\ frames.auth \in {AuthFrame(1, <<117>>, <<112>>), AuthFrame(1, <<117>>, <<113>>)}

\* An outbound connect that is still pending resolves: it succeeds or fails.
ConnectResolves(r) ==
  /\ r \in 1..Len(remotes)
  /\ remotes[r].status = "connecting"
  /\ \/ \E a \in LocalAddrs, p \in LocalPorts : RemoteConnect(r, a, p)
     \/ RemoteError(r)

\* Node emits 'close' for every destroyed socket, and the operating system
\* resolves every connect that is not abandoned.
FairSpec ==
  /\ LiveInit /\ [][Next]_vars
  /\ WF_vars(ClientCloseEvent)
  /\ \A r \in 1..MaxRemotes : WF_vars(RemoteCloseEvent(r))
  /\ \A r \in 1..MaxRemotes : WF_vars(ConnectResolves(r))

\* ------------------------------------------------------ the address codec

\* Address bytes and ports the codec is tried on: the bytes at which the
\* decimal and hexadecimal texts change length, and the extremes.
V4Bytes == { 0, 1, 9, 10, 99, 100, 255 }
V6Bytes == { 0, 1, 9, 10, 15, 16, 171, 255 }
CodecPorts == { 0, 80, 8080, 65535 }

\* IPv4 values: every quadruple of V4Bytes.
V4Values == [1..4 -> V4Bytes]

\* IPv6 values: every mix of the groups 0, 1 and ffff, and every group of
\* V6Bytes pairs at every position among zero or ffff groups.
V6Values ==
  { [i \in 1..16 |-> g[(i + 1) \div 2][2 - (i % 2)]] :
      g \in [1..8 -> {<<0, 0>>, <<0, 1>>, <<255, 255>>}] }
  \cup
  { [i \in 1..16 |-> IF (i + 1) \div 2 = at
                       THEN (IF i % 2 = 1 THEN hi ELSE lo) ELSE bg] :
      at \in 1..8, hi \in V6Bytes, lo \in V6Bytes, bg \in {0, 255} }

\* Domain strings: empty, a name, a name of 255 bytes, a two-byte UTF-8
\* character, a byte that is not UTF-8, texts that are nearly IP literals
\* (1.2.3, 256.1.1.1, 01.2.3.4) and texts that are (1.2.3.4, ::1,
\* 2001:db8::1).
DomainValues ==
  { <<>>,
    <<97, 46, 98>>,
    [i \in 1..255 |-> 97],
    <<195, 169>>,
    <<255>>,
    <<49, 46, 50, 46, 51>>,
    <<50, 53, 54, 46, 49, 46, 49, 46, 49>>,
    <<48, 49, 46, 50, 46, 51, 46, 52>>,
    <<49, 46, 50, 46, 51, 46, 52>>,
    <<58, 58, 49>>,
    <<50, 48, 48, 49, 58, 100, 98, 56, 58, 58, 49>> }

\* The CONNECT request frames carrying these addresses.
CodecRequests ==
  { <<5, 1, 0, 1>> \o a \o WriteUInt16BE(p) : a \in V4Values, p \in CodecPorts }
  \cup
  { <<5, 1, 0, 4>> \o a \o WriteUInt16BE(p) : a \in V6Values, p \in {0, 443} }
  \cup
  { <<5, 1, 0, 3, Len(d)>> \o d \o WriteUInt16BE(p) :
      d \in DomainValues, p \in CodecPorts }

\* A session whose handshake is done and whose request is about to arrive.
CodecInit ==
  /\ config = [user |-> <<117>>, pass |-> <<112>>]
  /\ frames \in [greeting : {<<5, 1, 2>>},
                 auth : {AuthFrame(1, <<117>>, <<112>>)},
                 request : CodecRequests, trail : {<<>>}]
  /\ sent = AEnd
  /\ state = "request"
  /\ buffer = <<>>
  /\ clientOut = <<5, 2, 1, 0>>
  /\ clientDestroyed = FALSE
  /\ clientClosed = FALSE
  /\ remotes = <<>>
  /\ consumed = AEnd
  /\ remoteSent = 0
  /\ hungUp = FALSE
  /\ split = FALSE

\* sendSocks5Reply given the host and port the request parser produced.
EncodeTarget ==
  /\ Len(remotes) = 1
  /\ clientOut = <<5, 2, 1, 0>>
  /\ clientOut' = clientOut \o
       sendSocks5Reply(0, <<[addr |-> remotes[1].host, port |-> remotes[1].port]>>)
  /\ UNCHANGED <<config, frames, sent, state, buffer, clientDestroyed,
                 clientClosed, remotes, consumed, remoteSent, hungUp, split>>

\* The request arrives and is decoded; its target is encoded.
CodecNext ==
  \/ \E k \in {Len(frames.request)} : ClientData(k)
  \/ EncodeTarget

CodecSpec == CodecInit /\ [][CodecNext]_vars

\* ------------------------------------------------- the client's frames

\* The greeting has version 5 and offers method m.
Offers(f, m) ==
  f.greeting[1] = 5 /\ \E i \in 3..Len(f.greeting) : f.greeting[i] = m

\* The username and password bytes of the auth frame.
AuthUser(f) == SubSeq(f.auth, 3, 2 + f.auth[2])
AuthPass(f) ==
  LET ulen == f.auth[2]
  IN  SubSeq(f.auth, ulen + 4, ulen + 3 + f.auth[ulen + 3])

\* The auth frame carries exactly the bytes of the configured credentials.
CredentialsMatch ==
  /\ AuthUser(frames) = Utf8Encode(config.user)
  /\ AuthPass(frames) = Utf8Encode(config.pass)

\* The frame is a request reply with the given code and a numeric address.
IsReplyFrame(frame, rep) ==
  /\ Len(frame) \in {10, 22}
  /\ SubSeq(frame, 1, 3) = <<5, rep, 0>>
  /\ frame[4] = (IF Len(frame) = 10 THEN 1 ELSE 4)

\* No outbound socket has had an event yet and the client has not hung up.
Undisturbed ==
  /\ ~hungUp
  /\ \A r \in 1..Len(remotes) :
       remotes[r].status = "connecting" /\ ~remotes[r].destroyed

\* What a session shows of itself: the bytes written to the client, whether
\* the client socket is destroyed, and the connect targets in order.
Observed(s) ==
  <<s.clientOut, s.clientDestroyed,
    [i \in 1..Len(s.remotes) |-> <<s.remotes[i].host, s.remotes[i].port>>]>>

\* The session that received the whole stream as one chunk.
OneChunk ==
  onData([state |-> "greeting", buffer |-> <<>>, clientOut |-> <<>>,
          clientDestroyed |-> FALSE, remotes |-> <<>>, consumed |-> 0],
         config, Stream(frames))

\* -------------------------------------------------------------- claims

\* C1: an outbound connection is opened only after an auth frame whose
\* username and password equal the configured credentials has arrived;
\* after a mismatch the server has written 01 01, destroyed the client and
\* processes no request and opens no outbound connection.
AuthBeforeConnect ==
  /\ Len(remotes) > 0 =>
       sent >= AEnd /\ frames.auth[1] = 1 /\ CredentialsMatch
  /\ (Offers(frames, 2) /\ frames.auth[1] = 1 /\ sent >= AEnd
        /\ ~CredentialsMatch) =>
       /\ clientOut = <<5, 2, 1, 1>>
       /\ clientDestroyed
       /\ state = "auth"
       /\ remotes = <<>>

\* C2: a complete version-1 auth frame is answered 01 00 and moves the
\* session to Request when its credentials are byte-equal to the configured
\* ones, and is answered 01 01 with the connection closed otherwise.
AuthReplyByteEqual ==
  (Offers(frames, 2) /\ frames.auth[1] = 1 /\ sent >= AEnd) =>
    IF CredentialsMatch
      THEN Slice(clientOut, 0, 4) = <<5, 2, 1, 0>> /\ state \in {"request", "relay"}
      ELSE clientOut = <<5, 2, 1, 1>> /\ clientDestroyed

\* C3: a complete version-5 greeting (any method count, zero included) that
\* offers 0x02 is answered 05 02, the session moves to Auth and the bytes
\* that follow are evaluated as an auth frame; one that does not offer it is
\* answered 05 FF, the client is destroyed and nothing more is processed.
GreetingReply ==
  (frames.greeting[1] = 5 /\ sent >= GEnd) =>
    IF Offers(frames, 2)
      THEN /\ Slice(clientOut, 0, 2) = <<5, 2>>
           /\ state # "greeting"
           /\ (sent >= AEnd /\ frames.auth[1] = 1) =>
                /\ Len(clientOut) >= 4
                /\ SubSeq(clientOut, 3, 4) \in {<<1, 0>>, <<1, 1>>}
           /\ (sent >= GEnd + 2 /\ frames.auth[1] # 1) =>
                clientOut = <<5, 2>> /\ clientDestroyed /\ state = "auth"
      ELSE /\ clientOut = <<5, 255>>
           /\ clientDestroyed
           /\ state = "greeting"
           /\ consumed = GEnd
           /\ remotes = <<>>

\* A greeting offering 0x02 second was accepted and the auth frame behind
\* it was evaluated and accepted.
GreetingReplyWitness ==
  /\ frames.greeting = <<5, 2, 0, 2>>
  /\ sent >= AEnd
  /\ clientOut = <<5, 2, 1, 0>>
  /\ state = "request"

\* C4: a session makes at most one outbound connection attempt, whatever
\* the client sends and whenever it arrives.
SingleConnectAttempt == Len(remotes) <= 1

\* C5: a stream of a greeting, an auth and a request frame gives the same
\* replies, the same connect targets and the same number of connects however
\* it is cut into chunks as when it arrives as one chunk.
FragmentationInvariance ==
  (/\ frames.trail = <<>>
   /\ sent = Len(Stream(frames)) \/ clientDestroyed
   /\ Undisturbed) =>
    Observed(Session) = Observed(OneChunk)

\* A stream that was cut inside a frame has arrived in full and its request
\* has started a connect.
FragmentationWitness ==
  /\ frames.trail = <<>>
  /\ sent = Len(Stream(frames))
  /\ split
  /\ Undisturbed
  /\ Len(remotes) = 1

\* The client sends scenario A's frames: a greeting offering 0x02, an auth
\* frame with the configured credentials and a CONNECT request.
ScenarioAFrames ==
  /\ Offers(frames, 2)
  /\ frames.auth[1] = 1 /\ CredentialsMatch
  /\ frames.request[1] = 5 /\ frames.request[2] = 1
  /\ frames.request[4] \in {1, 3, 4}

\* C6: after scenario A's frames, while the client socket stays open and
\* the connect succeeds, the session eventually reaches Relay; on entering
\* Relay the client has been written exactly 05 02, 01 00 and one reply
\* frame with code 00, so the Success reply precedes every destination byte.
ScenarioA ==
  /\ [][(state # "relay" /\ state' = "relay" /\ ~clientDestroyed) =>
         /\ Slice(clientOut', 0, 4) = <<5, 2, 1, 0>>
         /\ IsReplyFrame(SliceFrom(clientOut', 4), 0)]_vars
  /\ (ScenarioAFrames /\ sent >= REnd /\ ~clientDestroyed)
       ~> (state = "relay" \/ clientDestroyed)

\* Scenario A's frames have arrived, the client is open and the session
\* relays, the Success reply being all that follows the handshake replies.
ScenarioAWitness ==
  /\ ScenarioAFrames /\ sent >= REnd /\ ~clientDestroyed
  /\ state = "relay"
  /\ Slice(clientOut, 0, 4) = <<5, 2, 1, 0>>
  /\ IsReplyFrame(SliceFrom(clientOut, 4), 0)

\* C7: a version-5 request header with a command other than CONNECT, with
\* any address type, is answered 05 07 00 01 00 00 00 00 00 00, the client
\* is destroyed and the session never attempts an outbound connection.
CommandNotSupported ==
  (/\ Slice(clientOut, 0, 4) = <<5, 2, 1, 0>>
   /\ sent >= AEnd + 4
   /\ frames.request[1] = 5 /\ frames.request[2] # 1) =>
    /\ clientOut = <<5, 2, 1, 0, 5, 7, 0, 1, 0, 0, 0, 0, 0, 0>>
    /\ clientDestroyed
    /\ state = "request"
    /\ remotes = <<>>

\* A UDP-ASSOCIATE header with an unknown address type was refused.
CommandNotSupportedWitness ==
  /\ frames.request = <<5, 3, 0, 9>>
  /\ sent >= AEnd + 4
  /\ clientOut = <<5, 2, 1, 0, 5, 7, 0, 1, 0, 0, 0, 0, 0, 0>>
  /\ clientDestroyed

\* C8: when a connect attempt fails before it is established (the client
\* still being open), the client has been sent exactly one reply, with code
\* 01, both sockets are destroyed, the session never enters Relay or writes
\* a Success reply, and no further attempt is made.
ConnectFailure ==
  \A r \in 1..Len(remotes) :
    (remotes[r].status = "failed" /\ ~remotes[r].orphan) =>
      /\ clientOut = <<5, 2, 1, 0, 5, 1, 0, 1, 0, 0, 0, 0, 0, 0>>
      /\ clientDestroyed
      /\ remotes[r].destroyed
      /\ state # "relay"
      /\ Len(remotes) = remotes[r].attempts

\* C9: once relaying, the destination has been given exactly the bytes the
\* client sent after its request frame, each once and in order.
RelayPreservesBytes ==
  (/\ state = "relay"
   /\ ~clientDestroyed
   /\ remotes[1].status = "connected" /\ ~remotes[1].destroyed) =>
    remotes[1].in = SubSeq(Stream(frames), remotes[1].at + 1, sent)

\* The session has made an r-th outbound socket and it is destroyed.
RemoteDestroyed(r) == r <= Len(remotes) /\ remotes[r].destroyed

\* C10: once an outbound socket exists, a destroyed client socket leads to
\* every outbound socket being destroyed and a destroyed outbound socket
\* leads to the client socket being destroyed; a destroyed socket stays
\* destroyed whatever is done to it again.
TeardownCoupling ==
  /\ \A r \in 1..MaxRemotes :
       /\ (r <= Len(remotes) /\ clientDestroyed) ~> RemoteDestroyed(r)
       /\ RemoteDestroyed(r) ~> clientDestroyed
  /\ [][/\ clientDestroyed => clientDestroyed'
        /\ \A r \in 1..Len(remotes) :
             remotes[r].destroyed => remotes'[r].destroyed]_vars

\* Two outbound sockets exist, the client's 'close' has been handled and
\* both are destroyed.
TeardownWitness ==
  /\ Len(remotes) = 2
  /\ clientClosed
  /\ \A r \in 1..Len(remotes) : remotes[r].destroyed

\* How far along greeting, auth, request, relay a protocol state is.
StateRank(st) ==
  CASE st = "greeting" -> 0
    [] st = "auth" -> 1
    [] st = "request" -> 2
    [] st = "relay" -> 3

\* Some outbound connect of the session has succeeded.
SomeConnectSucceeded ==
  \E r \in 1..Len(remotes) : remotes[r].status \in {"connected", "reset"}

\* C11: the protocol state only moves forward along greeting, auth,
\* request, relay and never back; it is past greeting only after method
\* 0x02 was selected (05 02 written), past auth only after an auth was
\* accepted (01 00 written) and relay only after an outbound connect
\* succeeded, the step into relay being taken from request.
StateForward ==
  /\ [](state \in {"greeting", "auth", "request", "relay"})
  /\ [](state # "greeting" =>
          Offers(frames, 2) /\ Slice(clientOut, 0, 2) = <<5, 2>>)
  /\ [](StateRank(state) >= 2 =>
          Len(clientOut) >= 4 /\ SubSeq(clientOut, 3, 4) = <<1, 0>>)
  /\ [](state = "relay" => SomeConnectSucceeded)
  /\ [][/\ StateRank(state') >= StateRank(state)
        /\ (state # "relay" /\ state' = "relay") => state = "request"]_vars

\* The session went through all four states: the handshake replies are
\* written, the connect succeeded and the session relays.
StateForwardWitness ==
  /\ state = "relay"
  /\ Slice(clientOut, 0, 4) = <<5, 2, 1, 0>>
  /\ Len(remotes) = 1 /\ remotes[1].status = "connected"
  /\ ~clientDestroyed

\* C12: a greeting whose version byte is not 5, an auth frame whose version
\* byte is not 1 and a request whose version byte is not 5 each leave the
\* client socket destroyed with nothing written to the client for that
\* frame, the protocol state where it was and no outbound connection.
VersionMismatch ==
  /\ (frames.greeting[1] # 5 /\ sent >= 2) =>
       /\ clientOut = <<>>
       /\ clientDestroyed /\ state = "greeting" /\ remotes = <<>>
  /\ (Offers(frames, 2) /\ frames.auth[1] # 1 /\ sent >= GEnd + 2) =>
       /\ clientOut = <<5, 2>>
       /\ clientDestroyed /\ state = "auth" /\ remotes = <<>>
  /\ (/\ Slice(clientOut, 0, 4) = <<5, 2, 1, 0>>
      /\ frames.request[1] # 5 /\ sent >= AEnd + 4) =>
       /\ clientOut = <<5, 2, 1, 0>>
       /\ clientDestroyed /\ state = "request" /\ remotes = <<>>

\* A request with version byte 4 arrived behind an accepted auth and the
\* server, not the client, ended the session.
VersionMismatchWitness ==
  /\ frames.request[1] = 4 /\ sent >= AEnd + 4
  /\ clientOut = <<5, 2, 1, 0>>
  /\ clientDestroyed /\ ~hungUp

\* The connect target a CONNECT request frame names: the host text of its
\* 4 address bytes, of its length-prefixed string or of its 16 address
\* bytes, and its last two bytes as a big-endian port.
RequestTarget(req) ==
  LET n == Len(req)
  IN  [ host |-> CASE req[4] = 1 -> JoinDots(SubSeq(req, 5, 8))
                   [] req[4] = 3 -> Utf8Decode(SubSeq(req, 6, 5 + req[5]))
                   [] req[4] = 4 -> ipv6BufToString(SubSeq(req, 5, 20)),
        port |-> req[n - 1] * 256 + req[n] ]

\* The request frame is a version-5 CONNECT with a supported address type.
IsConnectRequest(req) ==
  req[1] = 5 /\ req[2] = 1 /\ req[4] \in {1, 3, 4}

\* C13: in state request a version-5 CONNECT header whose address type is
\* none of 1, 3, 4 is answered with one reply frame of code 08, the client
\* is destroyed and no outbound connection is attempted; a CONNECT with
\* address type 1, 3 or 4 connects to the host decoded from its 4 bytes,
\* its length-prefixed string or its 16 bytes, and to its big-endian port.
AddressTypes ==
  /\ (/\ Slice(clientOut, 0, 4) = <<5, 2, 1, 0>>
      /\ sent >= AEnd + 4
      /\ frames.request[1] = 5 /\ frames.request[2] = 1
      /\ frames.request[4] \notin {1, 3, 4}) =>
       /\ clientOut = <<5, 2, 1, 0, 5, 8, 0, 1, 0, 0, 0, 0, 0, 0>>
       /\ clientDestroyed
       /\ remotes = <<>>
  /\ (/\ Slice(clientOut, 0, 4) = <<5, 2, 1, 0>>
      /\ sent >= REnd
      /\ IsConnectRequest(frames.request)) => Len(remotes) >= 1
  /\ Len(remotes) >= 1 =>
       /\ IsConnectRequest(frames.request)
       /\ remotes[1].at = REnd
       /\ remotes[1].host = RequestTarget(frames.request).host
       /\ remotes[1].port = RequestTarget(frames.request).port
       /\ frames.request[4] = 1 =>
            /\ remotes[1].host = <<57, 51, 46, 49, 56, 52, 46,
                                   50, 49, 54, 46, 51, 52>>
            /\ remotes[1].port = 80
       /\ frames.request[4] = 3 =>
            remotes[1].host = <<97, 46, 98>> /\ remotes[1].port = 8080
       /\ frames.request[4] = 4 => remotes[1].port = 443

\* A CONNECT header with address type 5 arrived behind an accepted auth
\* and was refused with code 08.
AddressTypesWitness ==
  /\ frames.request = <<5, 1, 0, 5>>
  /\ sent >= AEnd + 4
  /\ clientOut = <<5, 2, 1, 0, 5, 8, 0, 1, 0, 0, 0, 0, 0, 0>>
  /\ clientDestroyed /\ ~hungUp

\* C14: every 4-byte IPv4 value and every 16-byte IPv6 value with any port,
\* decoded to the host text the request parser produces and encoded again
\* by the reply encoder, gives the request's own address type, address
\* bytes and port bytes.
NumericRoundTrip ==
  (frames.request[4] \in {1, 4} /\ Len(clientOut) > 4) =>
    SliceFrom(clientOut, 4) =
      <<5, 0, 0>> \o SubSeq(frames.request, 4, Len(frames.request))

\* An IPv6 value whose groups print with one to four hexadecimal digits or
\* as zero was decoded and encoded.
NumericRoundTripWitness ==
  /\ frames.request =
       <<5, 1, 0, 4>> \o <<0, 0, 0, 0, 0, 0, 0, 0, 0, 0, 10, 171, 0, 0, 0, 0>>
         \o <<1, 187>>
  /\ Len(remotes) = 1
  /\ remotes[1].host = <<48, 58, 48, 58, 48, 58, 48, 58, 48, 58,
                         97, 97, 98, 58, 48, 58, 48>>
  /\ Len(clientOut) = 4 + 22

\* C15: every domain string of 0 to 255 bytes with any port, decoded from a
\* request's domain-form address and encoded again by the reply encoder,
\* gives address type 3 with the same length byte, the same bytes and the
\* same port, also when the string reads as an IPv4 or IPv6 literal.
DomainRoundTrip ==
  (frames.request[4] = 3 /\ Len(clientOut) > 4) =>
    SliceFrom(clientOut, 4) =
      <<5, 0, 0>> \o SubSeq(frames.request, 4, Len(frames.request))

\* C16: the accumulation buffer holds exactly the client bytes received
\* and not yet consumed by a parsed frame or forwarded to the destination:
\* before relay the received bytes behind the consumed ones, and nothing
\* while a connected destination is being fed by the pipe.
BufferHoldsUnconsumed ==
  IF state = "relay"
    THEN (/\ ~clientDestroyed
          /\ Len(remotes) = 1
          /\ remotes[1].piped /\ ~remotes[1].destroyed) => buffer = <<>>
    ELSE buffer = SubSeq(Stream(frames), consumed + 1, sent)

\* C17: nothing is done on account of a frame before its last byte has
\* arrived: while the greeting is incomplete nothing is written, the state
\* is greeting and only the client itself can have ended the session;
\* while the auth frame is incomplete at most the greeting's reply is
\* written and the state is greeting or auth; while the request is
\* incomplete at most the auth's reply is written and the session is open
\* in state request unless an earlier frame was refused; and no outbound
\* connection exists before the whole request has arrived.
NoPartialSideEffects ==
  /\ sent < GEnd =>
       /\ clientOut = <<>> /\ state = "greeting" /\ remotes = <<>>
       /\ clientDestroyed => hungUp
  /\ (GEnd <= sent /\ sent < AEnd) =>
       /\ Len(clientOut) <= 2 /\ state \in {"greeting", "auth"}
       /\ remotes = <<>>
       /\ (clientDestroyed /\ state = "auth") => hungUp
  /\ (AEnd <= sent /\ sent < REnd) =>
       /\ Len(clientOut) <= 4 /\ state # "relay" /\ remotes = <<>>
       /\ (clientDestroyed /\ state = "request") => hungUp

\* C18: once the session relays, what has been written to the client is
\* the two handshake replies, one Success reply frame and behind it only
\* bytes the destination sent: no second reply frame follows, also when
\* the destination socket fails after the tunnel is established.  Stated
\* for the sessions that made a single outbound connection.
RelayWritesOnlyDestBytes ==
  (state = "relay" /\ Len(remotes) = 1 /\ Len(clientOut) > 4) =>
    LET rest == SliceFrom(clientOut, 4)
        n == IF rest[4] = 1 THEN 10 ELSE 22
    IN  /\ IsReplyFrame(Slice(rest, 0, n), 0)
        /\ Len(rest) - n <= remoteSent
        /\ \A i \in (n + 1)..Len(rest) : rest[i] \in DestBytes

\* C19: once the client socket is destroyed, no event that is still to
\* come (a late chunk, the connect completing, an outbound error, a close)
\* writes to the client, opens an outbound connection, starts a relay or
\* changes the protocol state.
ClosedIsTerminal ==
  [][clientDestroyed =>
       /\ clientDestroyed'
       /\ clientOut' = clientOut
       /\ Len(remotes') = Len(remotes)
       /\ \A r \in 1..Len(remotes) : remotes'[r].piped = remotes[r].piped
       /\ state' = state]_vars

\* The address-type tag and the numeric value of the bound addresses.
BoundTag(a) == IF a = JoinDots(<<127, 0, 0, 1>>) THEN 1 ELSE 4
BoundValue(a) ==
  IF a = JoinDots(<<127, 0, 0, 1>>) THEN <<127, 0, 0, 1>>
  ELSE IF a = <<58, 58, 49>>
    THEN <<0, 0, 0, 0, 0, 0, 0, 0, 0, 0, 0, 0, 0, 0, 0, 1>>
  ELSE <<0, 0, 0, 0, 0, 0, 0, 0, 0, 0, 255, 255, 127, 0, 0, 1>>

\* C20: the Success reply written when the outbound connect succeeds is
\* 05 00 00, the tag 1 for an IPv4-form bound address and 4 for an
\* IPv6-form one, the 4 or 16 bytes that are the numeric value of the
\* bound address, whatever textual form it is reported in, and the bound
\* port as two big-endian bytes.
SuccessReplyCarriesBound ==
  (/\ Len(remotes) = 1
   /\ remotes[1].status = "connected"
   /\ Len(clientOut) > 4) =>
    LET a == remotes[1].localAddress
        p == remotes[1].localPort
        want == <<5, 0, 0, BoundTag(a)>> \o BoundValue(a)
                  \o <<p \div 256, p % 256>>
    IN  Slice(clientOut, 4, 4 + Len(want)) = want

====
